---- MODULE Spec2Model ----
(***************************************************************************)
(* Model of the audit-agent frontend's client-side request handling:       *)
(*   - ApiClient (frontend/src/lib/api/client.ts): token storage, the      *)
(*     proactive refresh of ensureValidToken, fetch and its 401 path;      *)
(*   - the API functions layered on it (controls.ts, overrides, dialogue); *)
(*   - the useWebSocket hook (frontend/src/hooks/use-websocket.ts);        *)
(*   - the approvals page (frontend/src/app/(dashboard)/approvals).        *)
(* The browser is the environment: the server's responses, the clock, the  *)
(* socket events and the timers are nondeterministic.  The code runs in a  *)
(* browser (typeof window !== "undefined"); one action is one run of the   *)
(* event loop from a callback's start to its next await on the network.    *)
(***************************************************************************)
EXTENDS Integers, Sequences, FiniteSets, Bags, TLC

VARIABLES
    accessToken,     \* ApiClient.accessToken
    refreshToken,    \* ApiClient.refreshToken
    refreshPromise,  \* ApiClient.refreshPromise: "null" or "pending"
    localStorage,    \* window.localStorage: access_token, refresh_token
    location,        \* window.location.href
    now,             \* Date.now(), in milliseconds
    calls,           \* the bag of ApiClient.fetch invocations
    mounted,         \* a component using useWebSocket is mounted
    autoConnect,     \* the autoConnect option of the latest render
    wsRef,           \* wsRef.current: the hook's current socket, or none
    orphans,         \* the bag of sockets wsRef no longer refers to
    isConnected,     \* the isConnected state
    reconnectTimeoutRef,  \* the timer reconnectTimeoutRef.current names
    staleTimers,     \* the bag of pending timers it no longer names
    items,           \* approvals page: decision ids of the pending list
    overrides,       \* approvals page: the override history, newest first
    handler          \* approvals page: the handler awaiting its request

apiVars == <<accessToken, refreshToken, refreshPromise, localStorage,
             location, now, calls>>

wsVars == <<mounted, autoConnect, wsRef, orphans, isConnected,
            reconnectTimeoutRef, staleTimers>>

pageVars == <<items, overrides, handler>>

vars == <<apiVars, wsVars, pageVars>>

----------------------------------------------------------------------------
(* Bounds of the model *)

NumCalls == 2
MaxAlive == 3

(* Program constants *)

RefreshMarginMs == 60000
MsPerSecond == 1000

(* The instants at which the clock is read: before, at and after the     *)
(* refresh margin of a token that expires at second 90.                    *)
Times == {0, RefreshMarginMs \div 2, RefreshMarginMs}

----------------------------------------------------------------------------
(* Tokens.  An access token is a JWT; what the client reads of it is       *)
(* whether atob/JSON.parse of its payload throws ("bad"), whether          *)
(* payload.exp * 1000 is NaN ("nan"), or the number exp ("num").           *)

NoToken == [id |-> 0, kind |-> "null", exp |-> 0]
NoRefreshToken == 0

(* The token pairs the server issues (TokenResponse). *)
TokenResponses ==
    { [access_token |-> [id |-> 1, kind |-> "bad", exp |-> 0],   refresh_token |-> 1],
      [access_token |-> [id |-> 2, kind |-> "nan", exp |-> 0],   refresh_token |-> 1],
      [access_token |-> [id |-> 3, kind |-> "num", exp |-> 90],  refresh_token |-> 2],
      [access_token |-> [id |-> 4, kind |-> "num", exp |-> 120], refresh_token |-> 2] }

EmptyStorage == [access_token |-> NoToken, refresh_token |-> NoRefreshToken]

----------------------------------------------------------------------------
(* Responses.  A network failure makes the browser's fetch() reject; any   *)
(* other response has a status and a body, and response.json() rejects on  *)
(* a body that is not JSON.                                                *)

NotJson    == [kind |-> "notjson", detail |-> ""]
JsonNull   == [kind |-> "null",    detail |-> ""]
JsonObject == [kind |-> "obj",     detail |-> ""]
JsonDetail == [kind |-> "obj",     detail |-> "Forbidden"]

NoBody == [kind |-> "none", detail |-> ""]
NetErr == [status |-> 0, body |-> [kind |-> "neterr", detail |-> ""]]

Responses ==
    { NetErr,
      [status |-> 200, body |-> JsonObject],
      [status |-> 200, body |-> NotJson],
      [status |-> 401, body |-> JsonObject],
      [status |-> 403, body |-> JsonDetail],
      [status |-> 500, body |-> NotJson],
      [status |-> 500, body |-> JsonNull],
      [status |-> 500, body |-> JsonObject] }

NoResponse == [status |-> 0, body |-> NoBody]

ResponseOk(resp) == resp.status >= 200 /\ resp.status <= 299

RefreshOutcomes == {"ok", "notok", "neterr", "badjson"}

NoResult == [kind |-> "pending", body |-> NoBody, msg |-> "", code |-> 0]
Resolved(b) == [kind |-> "resolved", body |-> b, msg |-> "", code |-> 0]
Rejected(m, c) == [kind |-> "rejected", body |-> NoBody, msg |-> m, code |-> c]

----------------------------------------------------------------------------
(* The API functions layered on apiClient.  "fetch" stands for a function  *)
(* that returns apiClient's promise as it is (getDecisions, sendMessage,   *)
(* getRecentMessages, ...); the wrappers catch its rejection and return a  *)
(* hard-coded demo payload.                                                *)

Wrappers == {"getControlScorecard", "getControls", "getRiskDashboard",
             "getRisks", "getThreads", "getOverrides", "createOverride"}

ApiFunctions == Wrappers \cup {"getThreadMessages", "fetch"}

ThreadIds == {"thread-001", "thread-002"}

ApiArgs(api) == IF api = "getThreadMessages" THEN ThreadIds ELSE {""}

(* The path each function hands to apiClient (query strings left out),     *)
(* as the sequence of its segments.                                        *)
PathOf(api, arg) ==
    CASE api = "getControlScorecard" -> <<"api", "v1", "controls", "scorecard">>
      [] api = "getControls"         -> <<"api", "v1", "controls", "">>
      [] api = "getRiskDashboard"    -> <<"api", "v1", "risk", "dashboard">>
      [] api = "getRisks"            -> <<"api", "v1", "risk", "">>
      [] api = "getThreads"          -> <<"api", "v1", "dialogue", "threads">>
      [] api = "getOverrides"        -> <<"api", "v1", "agents", "overrides">>
      [] api = "createOverride"      -> <<"api", "v1", "agents", "override">>
      [] api = "getThreadMessages"   -> <<"api", "v1", "dialogue", "thread", arg>>
      [] OTHER                       -> <<"api", "v1", "agents", "decisions">>

(* docs API reference: Base URL /api/v1, GET /dialogue/threads/{thread_id} *)
DocumentedThreadPath(threadId) ==
    <<"api", "v1", "dialogue", "threads", threadId>>

(* The demo payload of each wrapper's catch block. *)
DemoPayload(api) ==
    CASE api = "getControlScorecard" -> "generateDemoScorecard()"
      [] api = "getControls"         -> "generateDemoScorecard().controls"
      [] api = "getRiskDashboard"    -> "generateDemoRiskData()"
      [] api = "getRisks"            -> "generateDemoRiskData().recent_risks"
      [] api = "getThreads"          -> "generateDemoThreads()"
      [] api = "getOverrides"        -> "generateDemoOverrides()"
      [] api = "createOverride"      -> "override-demo"
      [] OTHER                       -> ""

DemoBody(api) == [kind |-> "demo", detail |-> DemoPayload(api)]

(* A wrapper that lets the rejection through. *)
WrapperRethrows(api, result) == result

(* try { return await apiClient.get(...) } catch { return demo }: what the *)
(* API function's promise settles with, given what apiClient's settled with*)
ApiFunctionResult(api, result) ==
    IF api \in Wrappers /\ result.kind = "rejected"
    THEN Resolved(DemoBody(api))
    ELSE result

----------------------------------------------------------------------------
(* One ApiClient.fetch invocation.  pc is its position: "await" (line 74,  *)
(* awaiting refreshPromise), "sent" (line 96, request in flight),          *)
(* "refresh401" (line 104, refresh in flight), "retry" (line 106, retry in *)
(* flight), "done" (settled, until the caller drops the promise).  auth is *)
(* the Authorization header of the request in flight.  The other fields    *)
(* record what the invocation did: threw while the first request is        *)
(* pending, rt while its refresh POST is in flight (line 49), the rest     *)
(* once settled.  Invocations have no identity: calls is                   *)
(* the bag of their records.                                               *)

NewCall(api, arg) ==
    [pc |-> "new", api |-> api, arg |-> arg, path |-> PathOf(api, arg),
     auth |-> NoToken,      \* headers["Authorization"]
     threw |-> FALSE,       \* ensureValidToken's try block threw
     sends |-> 0,           \* requests sent for this invocation
     posts |-> 0,           \* refresh POSTs issued in the 401 path
     rt |-> NoRefreshToken, \* refresh_token in the body of its refresh POST
     got |-> NoToken,       \* access token the 401-path refresh returned
     resp |-> NoResponse,   \* the response that settled the promise
     via |-> "none",        \* the code path that settled the promise
     cause |-> "none",      \* why the 401 path's catch block ran
     kept |-> TRUE,         \* the settling step left tokens and storage alone
     loggedOut |-> FALSE,   \* after the settling step: cleared and at /login
     result |-> NoResult,   \* what apiClient.fetch's promise settled with
     outer |-> NoResult]    \* what the API function's promise settled with

TheCalls == BagToSet(calls)

One(c) == SetToBag({c})

(* calls with one copy of c replaced by d *)
Replace(c, d) == (calls (-) One(c)) (+) One(d)

(* The number of calls, copies counted, that satisfy the test. *)
NumberOf(Test(_)) ==
    BagCardinality([c \in {x \in TheCalls : Test(x)} |-> calls[c]])

(* The bag of G(c) for the calls c, copies counted. *)
BagOfImages(G(_)) ==
    [d \in {G(c) : c \in TheCalls} |->
        BagCardinality([c \in {x \in TheCalls : G(x) = d} |-> calls[c]])]

----------------------------------------------------------------------------
(* ApiClient: token storage *)

tokenVars == <<accessToken, refreshToken, localStorage>>

setTokens(tokens) ==
    /\ accessToken' = tokens.access_token
    /\ refreshToken' = tokens.refresh_token
    /\ localStorage' = tokens

(* clearTokens that forgets localStorage. *)
clearTokensMemoryOnly ==
    /\ accessToken' = NoToken
    /\ refreshToken' = NoRefreshToken
    /\ UNCHANGED localStorage

clearTokens ==
    /\ accessToken' = NoToken
    /\ refreshToken' = NoRefreshToken
    /\ localStorage' = EmptyStorage

(* What refreshAccessToken does to the tokens once its POST has settled:   *)
(* not OK clears them, OK with a JSON body stores the new pair, a network  *)
(* error or a body that is not JSON throws and leaves them.                *)
refreshAccessTokenSettles(outcome, tokens) ==
    CASE outcome = "ok"    -> setTokens(tokens)
      [] outcome = "notok" -> clearTokens
      [] OTHER             -> UNCHANGED tokenVars

----------------------------------------------------------------------------
(* ApiClient.ensureValidToken *)

(* The check with >= in place of >. *)
NeedsRefreshAtMargin(token, t) ==
    /\ token.kind = "num"
    /\ t >= token.exp * MsPerSecond - RefreshMarginMs

(* Lines 66-68: the payload parses, and Date.now() > exp * 1000 - 60000    *)
(* (a comparison with NaN is false).                                       *)
NeedsRefresh(token, t) ==
    /\ token.kind = "num"
    /\ t > token.exp * MsPerSecond - RefreshMarginMs

(* Lines 87-99: the request goes out with the access token of the moment  *)
(* (no Authorization header when there is none).                           *)
SendRequest(c, token) ==
    [c EXCEPT !.pc = "sent", !.sends = 1, !.auth = token]

(* ensureValidToken without its try/catch: a throw rejects fetch. *)
ProceedUncaught(c, threw, token) ==
    IF threw
    THEN [c EXCEPT !.pc = "done", !.via = "ensure", !.threw = TRUE,
                   !.result = Rejected("ensureValidToken", 0),
                   !.outer = ApiFunctionResult(c.api, Rejected("ensureValidToken", 0))]
    ELSE SendRequest(c, token)

(* Lines 76-78 and 85-99: whether or not the try block threw, fetch goes   *)
(* on to send the request.                                                 *)
ProceedAfterEnsure(c, threw, token) ==
    SendRequest([c EXCEPT !.threw = threw], token)

(* A call of an API function: apiClient.fetch runs up to its first await   *)
(* on the network.                                                         *)
Call(api, arg) ==
    /\ BagCardinality(calls) < NumCalls
    /\ LET c == NewCall(api, arg) IN
       /\ UNCHANGED <<tokenVars, location, now>>
       /\ CASE accessToken = NoToken ->
                 \* line 62
                 /\ calls' = calls (+) One(SendRequest(c, accessToken))
                 /\ UNCHANGED refreshPromise
            [] accessToken # NoToken /\ accessToken.kind = "bad" ->
                 \* line 66 throws
                 /\ calls' = calls (+) One(ProceedAfterEnsure(c, TRUE, accessToken))
                 /\ UNCHANGED refreshPromise
            [] accessToken # NoToken /\ accessToken.kind # "bad"
                  /\ ~NeedsRefresh(accessToken, now) ->
                 /\ calls' = calls (+) One(ProceedAfterEnsure(c, FALSE, accessToken))
                 /\ UNCHANGED refreshPromise
            [] accessToken # NoToken /\ NeedsRefresh(accessToken, now)
                  /\ refreshPromise = "pending" ->
                 \* line 74: joins the refresh in flight
                 /\ calls' = calls (+) One([c EXCEPT !.pc = "await"])
                 /\ UNCHANGED refreshPromise
            [] accessToken # NoToken /\ NeedsRefresh(accessToken, now)
                  /\ refreshPromise = "null"
                  /\ refreshToken = NoRefreshToken ->
                 \* line 43 throws, finally resets refreshPromise, catch
                 /\ calls' = calls (+) One(ProceedAfterEnsure(c, TRUE, accessToken))
                 /\ UNCHANGED refreshPromise
            [] accessToken # NoToken /\ NeedsRefresh(accessToken, now)
                  /\ refreshPromise = "null"
                  /\ refreshToken # NoRefreshToken ->
                 \* lines 46, 70: the POST goes out
                 /\ refreshPromise' = "pending"
                 /\ calls' = calls (+) One([c EXCEPT !.pc = "await",
                                                      !.rt = refreshToken])
    /\ UNCHANGED wsVars

(* A reset placed in .then(): it runs only when the refresh succeeded. *)
resetOnSuccessOnly(outcome) == IF outcome = "ok" THEN "null" ELSE "pending"

(* Lines 70-72: .finally() resets refreshPromise however the refresh ended.*)
finallyResets(outcome) == "null"

(* The refresh started by ensureValidToken settles: refreshAccessToken     *)
(* finishes, finally resets refreshPromise, and every fetch awaiting it    *)
(* resumes and sends its request.                                          *)
RefreshSettles(outcome, tokens) ==
    /\ refreshPromise = "pending"
    /\ refreshAccessTokenSettles(outcome, tokens)
    /\ refreshPromise' = finallyResets(outcome)
    /\ LET Resume(c) ==
             IF c.pc = "await"
             THEN ProceedAfterEnsure([c EXCEPT !.rt = NoRefreshToken],
                                     outcome # "ok", accessToken')
             ELSE c
       IN calls' = BagOfImages(Resume)
    /\ UNCHANGED <<location, now>>
    /\ UNCHANGED <<wsVars, pageVars>>

----------------------------------------------------------------------------
(* ApiClient.fetch after its first request *)

(* The record of a settled fetch.  kept and loggedOut compare the state    *)
(* before and after the settling step; the request's headers are gone.     *)
Settled(c, resp, res, via, cause) ==
    [c EXCEPT !.pc = "done", !.resp = resp, !.result = res, !.via = via,
              !.cause = cause,
              !.outer = ApiFunctionResult(c.api, res),
              !.auth = NoToken, !.got = NoToken, !.threw = FALSE,
              !.rt = NoRefreshToken,
              !.kept = (tokenVars' = tokenVars),
              !.loggedOut = /\ accessToken' = NoToken
                            /\ refreshToken' = NoRefreshToken
                            /\ localStorage' = EmptyStorage
                            /\ location' = "/login"]

(* Lines 123-128: response.json() falls back to {detail: "HTTP <status>"}  *)
(* when the body is not JSON; reading .detail of a JSON null throws a      *)
(* TypeError; an empty or missing detail gives "API Error: <status>".      *)
HttpError(resp) ==
    CASE resp.body.kind = "notjson" -> Rejected("HTTP", resp.status)
      [] resp.body.kind = "null"    -> Rejected("TypeError", 0)
      [] resp.body.kind = "obj" /\ resp.body.detail # ""
                                    -> Rejected(resp.body.detail, 0)
      [] OTHER                      -> Rejected("API Error", resp.status)

(* Lines 113, 130: return response.json(), which rejects when the body is  *)
(* not JSON.                                                               *)
JsonResult(resp) ==
    IF resp.body.kind = "notjson"
    THEN Rejected("SyntaxError", 0)
    ELSE Resolved(resp.body)

(* Lines 114-120: the catch block of the 401 path. *)
AuthenticationFailed ==
    /\ clearTokens
    /\ location' = "/login"

AuthFailedError == Rejected("Authentication failed", 0)

(* The retry going out with the first request's header. *)
RetryKeepsHeader(oldHeader, current) == oldHeader

(* Line 105: the retry's Authorization is the access token of the moment. *)
RetryAuthorization(oldHeader, current) == current

(* The first request's response arrives (or the network fails). *)
Respond(c, resp) ==
    /\ c.pc = "sent"
    /\ UNCHANGED <<refreshPromise, now>>
    /\ CASE resp = NetErr ->
              \* line 96 throws
              /\ UNCHANGED <<tokenVars, location>>
              /\ calls' = Replace(c,
                     Settled(c, resp, Rejected("NetworkError", 0), "network", "none"))
         [] resp # NetErr /\ resp.status = 401
               /\ refreshToken = NoRefreshToken ->
              \* line 43 throws inside the try of line 103
              /\ AuthenticationFailed
              /\ calls' = Replace(c,
                     Settled(c, resp, AuthFailedError, "auth", "norefreshtoken"))
         [] resp # NetErr /\ resp.status = 401
               /\ refreshToken # NoRefreshToken ->
              \* line 104 -> line 46: the refresh POST goes out
              /\ UNCHANGED <<tokenVars, location>>
              /\ calls' = Replace(c,
                     [c EXCEPT !.pc = "refresh401", !.posts = 1, !.threw = FALSE,
                               !.rt = refreshToken])
         [] resp # NetErr /\ resp.status # 401 /\ ~ResponseOk(resp) ->
              /\ UNCHANGED <<tokenVars, location>>
              /\ calls' = Replace(c, Settled(c, resp, HttpError(resp), "http", "none"))
         [] resp # NetErr /\ ResponseOk(resp) ->
              /\ UNCHANGED <<tokenVars, location>>
              /\ calls' = Replace(c, Settled(c, resp, JsonResult(resp), "ok", "none"))
    /\ UNCHANGED <<wsVars, pageVars>>

(* The refresh POST of the 401 path settles; on success the retry goes out.*)
Refresh401Settles(c, outcome, tokens) ==
    /\ c.pc = "refresh401"
    /\ UNCHANGED <<refreshPromise, now>>
    /\ IF outcome = "ok"
       THEN /\ setTokens(tokens)
            /\ UNCHANGED location
            /\ calls' = Replace(c,
                  [c EXCEPT !.pc = "retry", !.sends = 2, !.rt = NoRefreshToken,
                            !.got = tokens.access_token,
                            !.auth = RetryAuthorization(c.auth, accessToken')])
       ELSE \* refreshAccessToken threw (after clearTokens when not OK):
            \* line 114
            /\ AuthenticationFailed
            /\ calls' = Replace(c,
                  Settled(c, NoResponse, AuthFailedError, "auth",
                          IF outcome = "notok" THEN "refresh:notok"
                          ELSE IF outcome = "neterr" THEN "refresh:neterr"
                          ELSE "refresh:badjson"))
    /\ UNCHANGED <<wsVars, pageVars>>

(* The retry's response arrives (or the network fails). *)
RetryRespond(c, resp) ==
    /\ c.pc = "retry"
    /\ UNCHANGED <<refreshPromise, now>>
    /\ IF resp # NetErr /\ ResponseOk(resp)
       THEN \* line 113: the returned promise is not awaited inside the try
            /\ UNCHANGED <<tokenVars, location>>
            /\ calls' = Replace(c, Settled(c, resp, JsonResult(resp), "retry", "none"))
       ELSE \* line 106 or 111 throws: line 114
            /\ AuthenticationFailed
            /\ calls' = Replace(c, Settled(c, resp, AuthFailedError, "auth", "retry"))
    /\ UNCHANGED <<wsVars, pageVars>>

(* The caller drops a settled call. *)
Forget(c) ==
    /\ c.pc = "done"
    /\ calls' = calls (-) One(c)
    /\ UNCHANGED <<tokenVars, refreshPromise, location, now>>
    /\ UNCHANGED <<wsVars, pageVars>>

(* Time passes. *)
Tick(t) ==
    /\ t > now
    /\ now' = t
    /\ UNCHANGED <<tokenVars, refreshPromise, location, calls>>
    /\ UNCHANGED <<wsVars, pageVars>>

----------------------------------------------------------------------------
(* The useWebSocket hook.  A socket is its readyState and the autoConnect  *)
(* value its connect closure captured (the timer callback of line 56 reads *)
(* that value and calls that closure's connect).  A socket wsRef no longer *)
(* names still delivers its events to the handlers connect() gave it.  A   *)
(* pending timer is the autoConnect value its callback captured.           *)

NoSocket == [st |-> "null", ac |-> FALSE]
NewSocket(ac) == [st |-> "CONNECTING", ac |-> ac]

NoTimer == [pending |-> FALSE, ac |-> FALSE]
NewTimer(ac) == [pending |-> TRUE, ac |-> ac]

Live(s) == s.st \in {"CONNECTING", "OPEN"}

(* The hook's refs and state as one value, so that handlers compose. *)
Hook ==
    [wsRef |-> wsRef, orphans |-> orphans, isConnected |-> isConnected,
     reconnectTimeoutRef |-> reconnectTimeoutRef, staleTimers |-> staleTimers]

Becomes(h) ==
    /\ wsRef' = h.wsRef
    /\ orphans' = h.orphans
    /\ isConnected' = h.isConnected
    /\ reconnectTimeoutRef' = h.reconnectTimeoutRef
    /\ staleTimers' = h.staleTimers

(* Sockets that are connecting or open. *)
LiveSockets ==
    (IF Live(wsRef) THEN 1 ELSE 0)
       + BagCardinality([s \in {x \in BagToSet(orphans) : Live(x)} |-> orphans[s]])

(* Sockets not yet closed and timers not yet fired: what can still run a   *)
(* handler of the hook.                                                    *)
Alive ==
    (IF wsRef.st \in {"CONNECTING", "OPEN", "CLOSING"} THEN 1 ELSE 0)
       + BagCardinality(orphans)
       + (IF reconnectTimeoutRef.pending THEN 1 ELSE 0)
       + BagCardinality(staleTimers)

(* setIsConnected: a state update of an unmounted component is dropped. *)
setIsConnected(h, v) ==
    [h EXCEPT !.isConnected = IF mounted THEN v ELSE @]

(* A socket wsRef ceases to name lives on while it can deliver events. *)
Orphaned(orph, s) ==
    IF s.st \in {"CONNECTING", "OPEN", "CLOSING"}
    THEN orph (+) SetToBag({s})
    ELSE orph

(* ws.close(): a socket that is connecting or open starts closing. *)
close(s) == IF Live(s) THEN [s EXCEPT !.st = "CLOSING"] ELSE s

(* connect() returning whenever wsRef.current is set. *)
connectSkipsUnlessNull(ws) == ws # NoSocket

(* Line 29: connect() returns at once only when the current socket is OPEN.*)
connectReturnsEarly(ws) == ws.st = "OPEN"

(* Lines 28-65: connect() of the closure that captured autoConnect = ac. *)
connect(h, ac) ==
    IF connectReturnsEarly(h.wsRef)
    THEN h
    ELSE [h EXCEPT !.wsRef = NewSocket(ac),
                   !.orphans = Orphaned(h.orphans, h.wsRef)]

(* Lines 67-74: disconnect(). *)
disconnect(h) ==
    setIsConnected(
        [h EXCEPT !.reconnectTimeoutRef = NoTimer,
                  !.orphans = Orphaned(h.orphans, close(h.wsRef)),
                  !.wsRef = NoSocket],
        FALSE)

(* Lines 38-40: ws.onopen. *)
onopen(h) == setIsConnected(h, TRUE)

(* Lines 52-58: ws.onclose of a socket whose closure captured ac.  The     *)
(* timer reconnectTimeoutRef named before stays pending.                   *)
onclose(h, ac) ==
    [setIsConnected(h, FALSE) EXCEPT
        !.staleTimers = IF h.reconnectTimeoutRef.pending
                        THEN @ (+) SetToBag({h.reconnectTimeoutRef})
                        ELSE @,
        !.reconnectTimeoutRef = NewTimer(ac)]

(* Lines 55-57: the timer's callback. *)
onTimeout(h, ac) == IF ac THEN connect(h, ac) ELSE h

hookFrame == UNCHANGED <<mounted, autoConnect, apiVars, pageVars>>

(* Events of the socket wsRef names. *)
CurrentOpens ==
    /\ wsRef.st = "CONNECTING"
    /\ Becomes(onopen([Hook EXCEPT !.wsRef.st = "OPEN"]))
    /\ hookFrame

(* The server closes the connection, or the connection fails. *)
CurrentDrops ==
    /\ Live(wsRef)
    /\ Becomes(onclose([Hook EXCEPT !.wsRef.st = "CLOSED"], wsRef.ac))
    /\ hookFrame

(* Lines 60-62: ws.onerror calls ws.close(). *)
CurrentErrors ==
    /\ Live(wsRef)
    /\ Becomes([Hook EXCEPT !.wsRef = close(wsRef)])
    /\ hookFrame

(* The close event of a socket that close() was called on. *)
CurrentCloseEvent ==
    /\ wsRef.st = "CLOSING"
    /\ Becomes(onclose([Hook EXCEPT !.wsRef.st = "CLOSED"], wsRef.ac))
    /\ hookFrame

(* The same events of a socket wsRef no longer names. *)
OrphanOpens(s) ==
    /\ BagIn(s, orphans) /\ s.st = "CONNECTING"
    /\ Becomes(onopen([Hook EXCEPT !.orphans =
            (orphans (-) SetToBag({s})) (+) SetToBag({[s EXCEPT !.st = "OPEN"]})]))
    /\ hookFrame

OrphanDrops(s) ==
    /\ BagIn(s, orphans) /\ Live(s)
    /\ Becomes(onclose([Hook EXCEPT !.orphans = orphans (-) SetToBag({s})], s.ac))
    /\ hookFrame

OrphanErrors(s) ==
    /\ BagIn(s, orphans) /\ Live(s)
    /\ Becomes([Hook EXCEPT !.orphans =
            (orphans (-) SetToBag({s})) (+) SetToBag({close(s)})])
    /\ hookFrame

OrphanCloseEvent(s) ==
    /\ BagIn(s, orphans) /\ s.st = "CLOSING"
    /\ Becomes(onclose([Hook EXCEPT !.orphans = orphans (-) SetToBag({s})], s.ac))
    /\ hookFrame

(* The timer reconnectTimeoutRef names fires. *)
TimerFires ==
    /\ reconnectTimeoutRef.pending
    /\ Becomes(onTimeout([Hook EXCEPT !.reconnectTimeoutRef = NoTimer],
                         reconnectTimeoutRef.ac))
    /\ hookFrame

(* A timer set by an earlier onclose fires. *)
StaleTimerFires(t) ==
    /\ BagIn(t, staleTimers)
    /\ Becomes(onTimeout([Hook EXCEPT !.staleTimers = staleTimers (-) SetToBag({t})],
                         t.ac))
    /\ hookFrame

(* The component calls the connect / disconnect the hook returned. *)
CallerConnect ==
    /\ mounted
    /\ Alive < MaxAlive
    /\ Becomes(connect(Hook, autoConnect))
    /\ hookFrame

CallerDisconnect ==
    /\ mounted
    /\ Becomes(disconnect(Hook))
    /\ hookFrame

(* Lines 82-85: a render changes the effect's dependencies (autoConnect,   *)
(* or connect through tenantId / onMessage): the cleanup runs, then the    *)
(* effect.                                                                 *)
Rerender(newAutoConnect) ==
    /\ mounted
    /\ Alive < MaxAlive
    /\ autoConnect' = newAutoConnect
    /\ UNCHANGED <<mounted, apiVars, pageVars>>
    /\ Becomes(IF newAutoConnect
               THEN connect(disconnect(Hook), newAutoConnect)
               ELSE disconnect(Hook))

(* Line 84: the component unmounts and the cleanup runs. *)
Unmount ==
    /\ mounted
    /\ Becomes(disconnect(Hook))
    /\ mounted' = FALSE
    /\ UNCHANGED <<autoConnect, apiVars, pageVars>>

----------------------------------------------------------------------------
(* The constructor reads the tokens that setTokens/clearTokens left in     *)
(* localStorage: a pair or nothing.                                        *)
ApiInit ==
    /\ \E ls \in TokenResponses \cup {EmptyStorage} :
         /\ localStorage = ls
         /\ accessToken = ls.access_token
         /\ refreshToken = ls.refresh_token
    /\ refreshPromise = "null"
    /\ location = "/dashboard"
    /\ now = 0
    /\ calls = EmptyBag

(* What the server, the network and the clock do. *)
Environment ==
    \/ \E o \in RefreshOutcomes, t \in TokenResponses : RefreshSettles(o, t)
    \/ \E c \in TheCalls, resp \in Responses : Respond(c, resp)
    \/ \E c \in TheCalls, o \in RefreshOutcomes, t \in TokenResponses :
          Refresh401Settles(c, o, t)
    \/ \E c \in TheCalls, resp \in Responses : RetryRespond(c, resp)
    \/ \E c \in TheCalls : Forget(c)
    \/ \E t \in Times : Tick(t)

(* Concurrent calls of apiClient.fetch. *)
Next ==
    \/ Call("fetch", "") /\ UNCHANGED pageVars
    \/ Environment

(* No component uses the hook. *)
HookUnmounted ==
    /\ mounted = FALSE
    /\ autoConnect = FALSE
    /\ wsRef = NoSocket
    /\ orphans = EmptyBag
    /\ isConnected = FALSE
    /\ reconnectTimeoutRef = NoTimer
    /\ staleTimers = EmptyBag

(* No handler of the approvals page is awaiting a request. *)
NoHandler == [name |-> "none", decisionId |-> ""]

(* The approvals page is not shown. *)
PageClosed ==
    /\ items = {}
    /\ overrides = << >>
    /\ handler = NoHandler

Init == ApiInit /\ HookUnmounted /\ PageClosed

Spec == Init /\ [][Next]_vars

(* Calls of the API functions, one at a time. *)
CallApiFunction(api, arg) ==
    /\ calls = EmptyBag
    /\ Call(api, arg)
    /\ UNCHANGED pageVars

FnNext ==
    \/ \E api \in ApiFunctions : \E arg \in ApiArgs(api) :
          CallApiFunction(api, arg)
    \/ Environment

FnSpec == Init /\ [][FnNext]_vars

(* The hook after its mount: the effect has run connect() when autoConnect *)
(* is set.  Nobody is logged in and no request is made.                    *)
WsInit ==
    /\ accessToken = NoToken
    /\ refreshToken = NoRefreshToken
    /\ localStorage = EmptyStorage
    /\ refreshPromise = "null"
    /\ location = "/dialogue"
    /\ now = 0
    /\ calls = EmptyBag
    /\ mounted = TRUE
    /\ autoConnect \in BOOLEAN
    /\ wsRef = IF autoConnect THEN NewSocket(TRUE) ELSE NoSocket
    /\ orphans = EmptyBag
    /\ isConnected = FALSE
    /\ reconnectTimeoutRef = NoTimer
    /\ staleTimers = EmptyBag
    /\ PageClosed

WsNext ==
    \/ CurrentOpens
    \/ CurrentDrops
    \/ CurrentErrors
    \/ CurrentCloseEvent
    \/ \E s \in BagToSet(orphans) : OrphanOpens(s)
    \/ \E s \in BagToSet(orphans) : OrphanDrops(s)
    \/ \E s \in BagToSet(orphans) : OrphanErrors(s)
    \/ \E s \in BagToSet(orphans) : OrphanCloseEvent(s)
    \/ TimerFires
    \/ \E t \in BagToSet(staleTimers) : StaleTimerFires(t)
    \/ CallerConnect
    \/ CallerDisconnect
    \/ \E a \in BOOLEAN : Rerender(a)
    \/ Unmount

WsSpec == WsInit /\ [][WsNext]_vars

(* setTimeout callbacks run unless cleared, and the browser delivers the   *)
(* close event of a socket that close() was called on.                     *)
WsFairness ==
    /\ WF_vars(TimerFires)
    /\ \A a \in BOOLEAN : WF_vars(StaleTimerFires(NewTimer(a)))
    /\ WF_vars(CurrentCloseEvent)

WsFairSpec == WsSpec /\ WsFairness

----------------------------------------------------------------------------
(* The approvals page.  A handler sets off its request and resumes when    *)
(* the promise it awaits has settled; one handler runs at a time.          *)

DecisionIds == {"dec-001", "dec-002"}

(* What the user typed into the reason and override-action inputs. *)
Texts == {"", "text"}

(* Lines 73-79: handleApprove up to its await. *)
handleApprove(decisionId) ==
    /\ handler = NoHandler
    /\ decisionId \in items
    /\ Call("fetch", decisionId)
    /\ handler' = [name |-> "handleApprove", decisionId |-> decisionId]
    /\ UNCHANGED <<items, overrides>>

(* Lines 90-97: handleRejectWithReason up to its await. *)
handleRejectWithReason(decisionId, rejectReason) ==
    /\ handler = NoHandler
    /\ decisionId \in items
    /\ IF rejectReason = ""
       THEN UNCHANGED vars
       ELSE /\ Call("fetch", decisionId)
            /\ handler' = [name |-> "handleRejectWithReason",
                           decisionId |-> decisionId]
            /\ UNCHANGED <<items, overrides>>

(* Lines 110-118: handleOverride up to its await. *)
handleOverride(decisionId, overrideAction, rejectReason) ==
    /\ handler = NoHandler
    /\ decisionId \in items
    /\ IF overrideAction = "" \/ rejectReason = ""
       THEN UNCHANGED vars
       ELSE /\ Call("createOverride", decisionId)
            /\ handler' = [name |-> "handleOverride", decisionId |-> decisionId]
            /\ UNCHANGED <<items, overrides>>

(* Lines 80-87, 98-107, 119-130: the awaited promise has settled.  When it *)
(* resolved the item leaves the list (and handleOverride prepends what     *)
(* createOverride returned to the history); when it rejected the catch     *)
(* block does nothing.                                                     *)
HandlerResumes(c) ==
    /\ handler # NoHandler
    /\ c.pc = "done"
    /\ IF c.outer.kind = "resolved"
       THEN /\ items' = items \ {handler.decisionId}
            /\ overrides' =
                 IF handler.name = "handleOverride"
                 THEN <<[decision_id |-> handler.decisionId,
                         body |-> c.outer.body]>> \o overrides
                 ELSE overrides
       ELSE UNCHANGED <<items, overrides>>
    /\ handler' = NoHandler
    /\ calls' = calls (-) One(c)
    /\ UNCHANGED <<tokenVars, refreshPromise, location, now, wsVars>>

(* The page after fetchApprovals has loaded the queue (lines 54-71). *)
PageInit ==
    /\ ApiInit
    /\ HookUnmounted
    /\ items = DecisionIds
    /\ overrides = << >>
    /\ handler = NoHandler

PageNext ==
    \/ \E d \in DecisionIds : handleApprove(d)
    \/ \E d \in DecisionIds, r \in Texts : handleRejectWithReason(d, r)
    \/ \E d \in DecisionIds, a \in Texts, r \in Texts : handleOverride(d, a, r)
    \/ \E c \in TheCalls : HandlerResumes(c)
    \/ \E o \in RefreshOutcomes, t \in TokenResponses : RefreshSettles(o, t)
    \/ \E c \in TheCalls, resp \in Responses : Respond(c, resp)
    \/ \E c \in TheCalls, o \in RefreshOutcomes, t \in TokenResponses :
          Refresh401Settles(c, o, t)
    \/ \E c \in TheCalls, resp \in Responses : RetryRespond(c, resp)
    \/ \E t \in Times : Tick(t)

PageSpec == PageInit /\ [][PageNext]_vars

----------------------------------------------------------------------------
(* Counts used by the properties *)

AwaitCount == NumberOf(LAMBDA c : c.pc = "await")
SentCount == NumberOf(LAMBDA c : c.pc = "sent")
Refresh401Count == NumberOf(LAMBDA c : c.pc = "refresh401")

(* Refresh POSTs in flight: the one behind refreshPromise and those of the *)
(* 401 paths.                                                              *)
OutstandingRefreshes ==
    (IF refreshPromise = "pending" THEN 1 ELSE 0) + Refresh401Count

(* A step in which apiClient.fetch is called. *)
CallStep == BagCardinality(calls') = BagCardinality(calls) + 1

----------------------------------------------------------------------------
(* C1: at most one POST /api/v1/auth/refresh issued by the ApiClient is    *)
(* outstanding at any time, whatever the interleaving of concurrent fetch  *)
(* calls and their responses.                                              *)
C1_OneRefreshOutstanding == OutstandingRefreshes <= 1

----------------------------------------------------------------------------
(* C4: a demo-fallback wrapper never rejects: when apiClient's promise     *)
(* resolves, the wrapper resolves with the server payload; when it rejects *)
(* (network error, HTTP error, failed authentication, body that is not     *)
(* JSON), the wrapper resolves with its hard-coded demo payload.           *)
C4_WrappersNeverReject ==
    \A c \in TheCalls :
        (c.pc = "done" /\ c.api \in Wrappers) =>
            /\ c.outer.kind = "resolved"
            /\ c.result.kind = "resolved" => c.outer.body = c.resp.body
            /\ c.result.kind = "rejected" =>
                  /\ c.outer.body.kind = "demo"
                  /\ c.outer.body.detail = DemoPayload(c.api)

(* Each of the seven wrappers has fallen back to its demo payload at some  *)
(* point; here, getOverrides after a failed call.                          *)
C4_Witness ==
    \E c \in TheCalls :
        /\ c.pc = "done" /\ c.api = "getOverrides"
        /\ c.result.kind = "rejected"
        /\ c.outer = Resolved(DemoBody("getOverrides"))

----------------------------------------------------------------------------
----------------------------------------------------------------------------
(* C6: when fetch is called, its request is held back behind a token       *)
(* refresh if and only if an access token is held, its exp claim parses    *)
(* and the time is later than exp minus 60 seconds; otherwise (more than   *)
(* 60 seconds left, exactly 60 seconds left, exp unreadable, or no access  *)
(* token) the request is sent at once and no refresh request goes out.     *)
C6_Expiring ==
    /\ accessToken # NoToken
    /\ accessToken.kind = "num"
    /\ now > accessToken.exp * 1000 - 60000

----------------------------------------------------------------------------
(* C8 as stated: whenever the 401 path rejects, both tokens are cleared    *)
(* from memory and localStorage, the browser is at /login and the error is *)
(* 'Authentication failed'.                                                *)
C8_In401Path(c) == c.pc = "done" /\ (c.posts = 1 \/ c.cause = "norefreshtoken")

C8_Original ==
    \A c \in TheCalls :
        (C8_In401Path(c) /\ c.result.kind = "rejected") =>
            c.loggedOut /\ c.result = AuthFailedError

(* C8 (amended): in the 401 path, if the refresh cannot be done (no        *)
(* refresh token, refresh not OK, network error, refresh body not JSON) or *)
(* the retry fails (network error or any status that is not OK), both      *)
(* tokens are cleared from memory and localStorage, the browser is sent to *)
(* /login and fetch rejects with 'Authentication failed'.  The 401 path    *)
(* rejects with the tokens left in place only when the retry is OK and its *)
(* body is not JSON: fetch then rejects with the parse error.              *)
C8_RefreshImpossible(c) ==
    c.cause \in {"norefreshtoken", "refresh:notok", "refresh:neterr",
                 "refresh:badjson"}

C8_RetryNotOk(c) ==
    c.pc = "done" /\ c.sends = 2
       /\ (c.resp = NetErr \/ c.resp.status \notin 200..299)

C8_AuthFailureLogsOut ==
    \A c \in TheCalls :
        /\ (C8_RefreshImpossible(c) \/ C8_RetryNotOk(c)) =>
              c.loggedOut /\ c.result = AuthFailedError
        /\ (C8_In401Path(c) /\ c.result.kind = "rejected"
               /\ ~(c.loggedOut /\ c.result = AuthFailedError)) =>
              /\ c.sends = 2
              /\ c.resp.status \in 200..299
              /\ c.resp.body.kind = "notjson"
              /\ c.result = Rejected("SyntaxError", 0)
              /\ c.kept

(* A retry answered 403 has logged the user out. *)
C8_Witness ==
    \E c \in TheCalls :
        /\ C8_RetryNotOk(c) /\ c.resp.status = 403
        /\ c.loggedOut /\ c.result = AuthFailedError

----------------------------------------------------------------------------
(* C9: a failure in ensureValidToken never aborts the request.  When the   *)
(* access token's payload cannot be parsed, the call sends no refresh      *)
(* request, leaves the tokens and localStorage unchanged and sends the     *)
(* request with the current access token; when the refresh awaited by      *)
(* ensureValidToken fails, every fetch awaiting it goes on to send its     *)
(* request; no fetch is ever rejected by ensureValidToken.                 *)
C9_FailureNeverAborts ==
    [][/\ (CallStep /\ accessToken.kind = "bad") =>
             /\ UNCHANGED <<tokenVars, refreshPromise>>
             /\ \E d \in BagToSet(calls') :
                   /\ d.pc = "sent" /\ d.threw /\ d.sends = 1
                   /\ d.auth = accessToken
                   /\ CopiesIn(d, calls') = CopiesIn(d, calls) + 1
       /\ (refreshPromise = "pending" /\ refreshPromise' = "null") =>
             /\ AwaitCount' = 0
             /\ SentCount' = SentCount + AwaitCount
       /\ \A d \in BagToSet(calls') :
             /\ d.via # "ensure"
             /\ d.threw => d.pc = "sent"
      ]_vars

(* One request went out with an unparseable token, another after the       *)
(* refresh awaited by ensureValidToken had failed.                         *)
C9_Witness ==
    /\ \E c \in TheCalls : c.pc = "sent" /\ c.threw /\ c.auth.kind = "bad"
    /\ \E c \in TheCalls : c.pc = "sent" /\ c.threw /\ c.auth.kind # "bad"

----------------------------------------------------------------------------
(* C10: for a response that is neither OK nor 401, fetch rejects with the  *)
(* body's detail when the body is JSON with a detail, otherwise with       *)
(* 'HTTP <status>' or 'API Error: <status>'; it sends the request once,    *)
(* issues no refresh, and leaves the tokens and localStorage unchanged.    *)
C10_HttpErrorMessage ==
    \A c \in TheCalls :
        (c.pc = "done" /\ c.sends = 1 /\ c.resp.status \notin {0, 401}
            /\ c.resp.status \notin 200..299) =>
            /\ IF c.resp.body.kind = "obj" /\ c.resp.body.detail # ""
               THEN c.result = Rejected(c.resp.body.detail, 0)
               ELSE c.result \in {Rejected("HTTP", c.resp.status),
                                  Rejected("API Error", c.resp.status)}
            /\ c.posts = 0
            /\ c.kept
            /\ ~c.loggedOut

----------------------------------------------------------------------------
(* C7: the path getThreadMessages(threadId) requests is the documented     *)
(* GET /api/v1/dialogue/threads/{thread_id}, for every thread id.          *)
C7_DocumentedThreadPath ==
    \A c \in TheCalls :
        c.api = "getThreadMessages" => c.path = DocumentedThreadPath(c.arg)

----------------------------------------------------------------------------
(* C2: a useWebSocket hook instance has at most one WebSocket that is      *)
(* connecting or open, after any sequence of connect(), disconnect(),      *)
(* socket events, timer firings and effect re-runs.                        *)
C2_SingleSocket == LiveSockets <= 1

----------------------------------------------------------------------------
(* C3: while the hook is mounted with autoConnect set and the caller has   *)
(* not disconnected, a current socket that has closed (or errored, which   *)
(* closes it) is always eventually replaced by a new connection attempt,   *)
(* made when a reconnect timer fires; this holds after every close.        *)
C3_Closed ==
    /\ mounted /\ autoConnect
    /\ wsRef.st \in {"CLOSING", "CLOSED"}

C3_Retried ==
    \/ Live(wsRef)
    \/ wsRef = NoSocket
    \/ ~mounted
    \/ ~autoConnect

C3_AutoReconnect == C3_Closed ~> C3_Retried

(* The current socket has closed and its reconnect timer is pending. *)
C3_Witness ==
    /\ mounted /\ autoConnect
    /\ wsRef.st = "CLOSED"
    /\ reconnectTimeoutRef = NewTimer(TRUE)

----------------------------------------------------------------------------
(* C11: tokens stored by a successful refresh are never cleared by the     *)
(* failure of a different refresh request that was issued before they     *)
(* were stored: whenever a refresh POST fails and the step clears the      *)
(* tokens held, those tokens carry the refresh token the POST was sent     *)
(* with (nothing was stored since it went out).                            *)
C11_RefreshFails(c) ==
    /\ c.pc \in {"await", "refresh401"}
    /\ c.rt # NoRefreshToken
    /\ CopiesIn(c, calls') < CopiesIn(c, calls)
    /\ accessToken # NoToken
    /\ accessToken' = NoToken

C11_StoredTokensSurvive ==
    [][\A c \in TheCalls : C11_RefreshFails(c) => c.rt = refreshToken]_vars

----------------------------------------------------------------------------
(* C12: after disconnect() (called by the component, or by the effect      *)
(* cleanup at unmount) no new WebSocket is opened unless the caller        *)
(* connects again: a step that gives the hook a socket when it has none    *)
(* is a connect() of the mounted component or a re-run of its effect,      *)
(* never the firing of a reconnect timer the close left behind.            *)
C12_CallerConnects ==
    /\ mounted
    /\ \/ /\ Hook' = connect(Hook, autoConnect)
          /\ UNCHANGED autoConnect
       \/ /\ autoConnect'
          /\ Hook' = connect(disconnect(Hook), TRUE)

C12_NoReconnectAfterDisconnect ==
    [][(wsRef = NoSocket /\ wsRef' # NoSocket) => C12_CallerConnects]_vars

----------------------------------------------------------------------------
(* C13: while the hook is mounted, isConnected tells whether the current   *)
(* socket (wsRef.current) is open: it is true whenever the current socket  *)
(* is OPEN, and it is true only when there is a current socket that is     *)
(* OPEN (or closing after close(), its close event not yet handled).  An   *)
(* event of a superseded socket never breaks this.                         *)
C13_IsConnectedTracksCurrent ==
    mounted =>
        /\ wsRef.st = "OPEN" => isConnected
        /\ isConnected => wsRef.st \in {"OPEN", "CLOSING"}

----------------------------------------------------------------------------
(* C14: refreshPromise is non-null exactly while the refresh POST that     *)
(* ensureValidToken started is in flight, and a fetch awaits only such a   *)
(* refresh; when the POST settles, with any outcome, refreshPromise is     *)
(* null again and every fetch that awaited it has sent its request; a      *)
(* later fetch with an expiring token then starts a refresh of its own.    *)
C14_ProactivePosts ==
    NumberOf(LAMBDA c : c.pc = "await" /\ c.rt # NoRefreshToken)

C14_Tracks ==
    /\ C14_ProactivePosts = (IF refreshPromise = "pending" THEN 1 ELSE 0)
    /\ AwaitCount > 0 => refreshPromise = "pending"

C14_Settles ==
    (C14_ProactivePosts = 1 /\ C14_ProactivePosts' = 0) =>
        /\ refreshPromise' = "null"
        /\ AwaitCount' = 0
        /\ SentCount' = SentCount + AwaitCount

C14_StartsAfresh ==
    (CallStep /\ refreshPromise = "null" /\ NeedsRefresh(accessToken, now)
        /\ refreshToken # NoRefreshToken) =>
        /\ refreshPromise' = "pending"
        /\ C14_ProactivePosts' = 1

C14_RefreshPromiseReset ==
    [][C14_Tracks /\ C14_Tracks' /\ C14_Settles /\ C14_StartsAfresh]_vars

(* A refresh two fetches awaited has failed; both have sent their request  *)
(* and refreshPromise is null with the token still expiring.               *)
C14_Witness ==
    /\ refreshPromise = "null"
    /\ NeedsRefresh(accessToken, now)
    /\ NumberOf(LAMBDA c : c.pc = "sent" /\ c.threw) = 2

----------------------------------------------------------------------------
(* C15: when the apiClient call of a demo-fallback wrapper fails, the      *)
(* wrapper returns its demo payload and nothing else happens: the step in  *)
(* which the call fails leaves the access token, the refresh token,        *)
(* localStorage and the page location as they were, whatever the failure   *)
(* (a 401 response included).                                              *)
C15_FailedWrapperCalls ==
    NumberOf(LAMBDA c : /\ c.pc = "done" /\ c.api \in Wrappers
                        /\ c.result.kind = "rejected"
                        /\ c.outer = Resolved(DemoBody(c.api)))

C15_FallbackOnlyEffect ==
    [][C15_FailedWrapperCalls' > C15_FailedWrapperCalls =>
          UNCHANGED <<tokenVars, location>>]_vars

----------------------------------------------------------------------------
(* C16: on the approvals page an item leaves the pending list only after   *)
(* the backend request for approving, rejecting or overriding it has       *)
(* succeeded; when the request failed, the pending list and the override   *)
(* history are left unchanged.                                             *)
C16_RequestSucceeded ==
    \E c \in TheCalls : c.pc = "done" /\ c.result.kind = "resolved"

C16_LeavesOnlyOnSuccess ==
    [][(items' # items \/ overrides' # overrides) => C16_RequestSucceeded]_vars

====
